---- MODULE Spec2Model ----
(***************************************************************************)
(* Model of the runner-controller: the reconciling scheduler              *)
(* (listener.rs), the job predicates (github/types.rs) and the state      *)
(* index (state.rs).  The sandbox driver (crate::container) is modelled   *)
(* from its specified interface.                                           *)
(***************************************************************************)
EXTENDS Integers, Sequences, FiniteSets, TLC

(***************************************************************************)
(* Bounds of the model.                                                    *)
(***************************************************************************)
\* longest candidate list one tick gathers
MaxJobs == 2
\* the clock stops advancing here, which also bounds the number of ticks
MaxTime == 2
\* longest label list given to labels_match
MaxLabels == 2
\* invocations of cleanup_container_full on one name
MaxRuns == 2
\* workflow runs one list_workflow_runs answer holds at most
MaxWorkflowRuns == 1

(***************************************************************************)
(* Configuration (config.rs).                                              *)
(***************************************************************************)
max_concurrent_jobs == 2
poll_interval == 1
job_timeout == 1
runner_labels == <<"self-hosted", "linux">>

(***************************************************************************)
(* Values.                                                                 *)
(***************************************************************************)
None == [some |-> FALSE, v |-> 0]
Some(x) == [some |-> TRUE, v |-> x]

JobIds == {1, 2, 12}

RECURSIVE Decimal(_)
Decimal(n) == IF n < 10 THEN <<n>> ELSE Decimal(n \div 10) \o <<n % 10>>

\* ContainerManager::job_id_to_container_name: "ci-runner-" followed by the
\* decimal digits of the job id
job_id_to_container_name(job_id) == <<"ci-runner-">> \o Decimal(job_id)

Names == {job_id_to_container_name(j) : j \in JobIds}

\* the job id a name was derived from
IdOfName(name) == CHOOSE j \in JobIds : job_id_to_container_name(j) = name

Range(s) == {s[i] : i \in 1..Len(s)}

SeqsUpTo(S, n) == UNION {[1..k -> S] : k \in 0..n}

\* byte order of two digit strings, and of two names (which share the prefix):
\* the order in which the state table iterates its keys
RECURSIVE LexLess(_, _)
LexLess(a, b) ==
    IF a = <<>> THEN b # <<>>
    ELSE IF b = <<>> THEN FALSE
    ELSE IF Head(a) = Head(b) THEN LexLess(Tail(a), Tail(b))
    ELSE Head(a) < Head(b)

NameLess(a, b) == LexLess(Tail(a), Tail(b))

RECURSIVE KeyOrder(_)
KeyOrder(S) ==
    IF S = {} THEN <<>>
    ELSE LET m == CHOOSE x \in S : \A y \in S \ {x} : NameLess(x, y)
         IN <<m>> \o KeyOrder(S \ {m})

(***************************************************************************)
(* github/types.rs: Job and its predicates.                                *)
(***************************************************************************)
\* the job records the CI service may return
JobPool ==
    { [id |-> 1, status |-> "queued", labels |-> <<"self-hosted">>, runner_id |-> None],
      [id |-> 2, status |-> "pending", labels |-> <<>>, runner_id |-> Some(0)],
      [id |-> 2, status |-> "queued", labels |-> <<>>, runner_id |-> Some(7)],
      [id |-> 1, status |-> "completed", labels |-> <<"self-hosted">>, runner_id |-> None],
      [id |-> 12, status |-> "waiting", labels |-> <<"self-hosted", "windows">>, runner_id |-> None] }

is_waiting_Negated(job) == job.status \notin {"queued", "waiting", "pending"}

is_waiting(job) == job.status \in {"queued", "waiting", "pending"}

has_runner(job) == job.runner_id.some /\ job.runner_id # Some(0)

(***************************************************************************)
(* listener.rs: labels_match.                                              *)
(***************************************************************************)
RECURSIVE labels_scan(_, _)
labels_scan(job_labels, runner_set) ==
    IF job_labels = <<>> THEN TRUE
    ELSE IF Head(job_labels) \notin runner_set THEN FALSE
    ELSE labels_scan(Tail(job_labels), runner_set)

labels_match_FirstOnly(job_labels, runner_labels_) ==
    job_labels = <<>> \/ Head(job_labels) \in Range(runner_labels_)

labels_match(job_labels, runner_labels_) ==
    labels_scan(job_labels, Range(runner_labels_))

(***************************************************************************)
(* state.rs: ContainerState and the table operations.                      *)
(***************************************************************************)
VARIABLES
    pc,             \* position of the scheduler task in main/run/shutdown; at the end
                    \* "done" (shutdown returned Ok) or "aborted" (it returned Err)
    sandboxes,      \* names the driver lists as live
    completed,      \* live sandboxes whose runner process has exited
    state_db,       \* the containers table: name -> ContainerState
    now,            \* wall clock, seconds
    shutdown_flag,  \* value of the watch channel
    run_result,     \* what JobListener::run returned: "none", "ok", "err"
    exit_result,    \* what main returned: "none", "ok", "err"
    todo,           \* names of the current list() still to iterate
    active_set,     \* the list() snapshot of reconcile / check_containers
    all_jobs,       \* candidate list of this tick
    job_i,          \* index of the next candidate
    existing_containers, \* the list() snapshot of process_queued_jobs
    dereg,          \* names delete_runner_by_name was called with (since the tick or the drain began)
    trail,          \* outcome of each candidate examined in this tick
    hist,           \* facts recorded at the start of a tick and of its phases
    kept_waiting,   \* job ids launched and recorded before, and seen waiting ever since
    job_labels,     \* input of labels_match
    label_set,      \* second input of labels_match
    match_result,   \* its result: "unset", "true" or "false"
    cl_name,        \* argument of the cleanup_container_full call under study
    cl_calls,       \* calls the current invocation has made, with their outcomes
    cl_results,     \* what the finished invocations returned, in order
    cl_pre,         \* inventory and State Index when the current invocation began
    cl_before,      \* inventory and State Index before the first invocation
    http_method,    \* "GET", "POST" or "DELETE": which request loop runs
    http_attempt,   \* the loop variable attempt
    backoff_ms,     \* the local backoff_ms
    http_seen,      \* response of each attempt made so far
    http_slept,     \* duration of each sleep taken so far, in ms
    http_result,    \* "pending", "ok" or "err"
    dbn_name,       \* argument of delete_runner_by_name
    dbn_listing,    \* names of the runners a successful listing returns
    dbn_stage,      \* "find" (list_runners), "delete" (delete_runner) or "-"
    dbn_result,     \* "pending", "ok" or "err"
    gather_status,  \* index of the status whose runs are queried next
    pending_runs,   \* runs of the current status whose jobs are still to be queried
    gather_last,    \* outcome of the latest CI listing query: "-", "ok" or "err"
    gather_partial, \* some listing query of this Phase 2 failed
    ci_called,      \* a CI listing query was made in this Phase 2
    st_op,          \* the latest State Index operation called: [op, name, a, io]
    st_ret          \* what it returned

sched_vars == <<pc, sandboxes, completed, state_db, now, shutdown_flag, run_result,
                exit_result, todo, active_set, all_jobs, job_i, existing_containers,
                dereg, trail, hist, kept_waiting>>
label_vars == <<job_labels, label_set, match_result>>
cleanup_vars == <<cl_name, cl_calls, cl_results, cl_pre, cl_before>>
client_vars == <<http_method, http_attempt, backoff_ms, http_seen, http_slept, http_result>>
dbn_vars == <<dbn_name, dbn_listing, dbn_stage, dbn_result>>
gather_vars == <<gather_status, pending_runs, gather_last, gather_partial, ci_called>>
index_vars == <<st_op, st_ret>>
more_vars == <<dbn_vars, gather_vars, index_vars>>
\* the scheduler's state but its position and its candidate list
sched_vars_but_pc == <<sandboxes, completed, state_db, now, shutdown_flag, run_result,
                       exit_result, todo, active_set, job_i, existing_containers,
                       dereg, trail, hist, kept_waiting>>
other_vars == <<label_vars, cleanup_vars, client_vars, more_vars>>
vars == <<sched_vars, other_vars>>

ContainerState_new_Epoch(slot) == [slot |-> slot, started_at |-> 0]

ContainerState_new(slot) == [slot |-> slot, started_at |-> now]

\* now.saturating_sub(started_at)
running_seconds(state) == IF now >= state.started_at THEN now - state.started_at ELSE 0

put_container(db, name, state) ==
    [n \in DOMAIN db \cup {name} |-> IF n = name THEN state ELSE db[n]]

get_container(db, name) == IF name \in DOMAIN db THEN Some(db[name]) ELSE None

remove_container_Keep(db, name) == db

remove_container(db, name) == [n \in DOMAIN db \ {name} |-> db[n]]

RECURSIVE remove_all(_, _)
remove_all(db, names) ==
    IF names = <<>> THEN db
    ELSE remove_all(remove_container(db, Head(names)), Tail(names))

list_containers(db) == KeyOrder(DOMAIN db)

clear_all_Nothing(db) == db

clear_all(db) == remove_all(db, list_containers(db))

(***************************************************************************)
(* Sandbox driver (ContainerManager), from its interface.                  *)
(***************************************************************************)
list == sandboxes

count_active == Cardinality(sandboxes)

is_runner_completed(name) == name \in completed

\* destroy: the inventory without the name; an absent name is success
cleanup_container(inventory, name) == inventory \ {name}

(***************************************************************************)
(* Initial states: whatever a previous instance left on the host and in    *)
(* the state index.  The previous instance kept the concurrency bound.     *)
(***************************************************************************)
\* fresh: no tick has begun; orphans0: sandboxes without an entry at startup;
\* stale0, reap0, late0, p1: Phase 1 of the tick; a0, db0, p2, again: its Phase 2;
\* drain0: the sandboxes the drain enumerated; fatal: a CI call of the tick was
\* answered 401
NoHist == [fresh |-> TRUE, orphans0 |-> {}, stale0 |-> {}, reap0 |-> {}, late0 |-> {},
           p1 |-> "-",
           a0 |-> 0, db0 |-> {}, p2 |-> "-", again |-> {}, drain0 |-> {}, fatal |-> "-",
           prev |-> FALSE, lost |-> {}, probe |-> <<>>, active0 |-> {}]

\* the records of a tick are dropped when the tick is over
ClearedHist == [NoHist EXCEPT !.fresh = FALSE]

\* the locals of check_containers and process_queued_jobs are dropped
ForgetLocals ==
    /\ active_set' = {}
    /\ all_jobs' = <<>>
    /\ job_i' = 1
    /\ existing_containers' = {}
    /\ dereg' = {}
    /\ trail' = <<>>

ForgetTick ==
    /\ ForgetLocals
    /\ hist' = ClearedHist

\* a phase of this tick returned an error
TickFailed == hist.p1 = "err" \/ hist.p2 \in {"err", "corrupt"}

\* the sandboxes this tick launched and could not record
PutFailed == {job_id_to_container_name(all_jobs[i].id) :
                 i \in {k \in 1..Len(trail) : trail[k] = "put_failed"}}

\* the records of a tick, with what is remembered of the tick before it
Phase1Hist == [ClearedHist EXCEPT !.prev = hist.prev, !.lost = hist.lost]

Phase2Hist == [ClearedHist EXCEPT !.prev = hist.prev, !.p1 = hist.p1]

LabelsIdle ==
    /\ job_labels = <<>>
    /\ label_set = <<>>
    /\ match_result = "unset"

CleanupIdle ==
    /\ cl_name = <<>>
    /\ cl_calls = <<>>
    /\ cl_results = <<>>
    /\ cl_pre = <<>>
    /\ cl_before = <<>>

ClientIdle ==
    /\ http_method = "-"
    /\ http_attempt = 0
    /\ backoff_ms = 0
    /\ http_seen = <<>>
    /\ http_slept = <<>>
    /\ http_result = "-"

DbnIdle ==
    /\ dbn_name = <<>>
    /\ dbn_listing = {}
    /\ dbn_stage = "-"
    /\ dbn_result = "-"

GatherIdle ==
    /\ gather_status = 0
    /\ pending_runs = 0
    /\ gather_last = "-"
    /\ gather_partial = FALSE
    /\ ci_called = FALSE

NoOp == [op |-> "-", name |-> <<>>, a |-> [slot |-> 0, started_at |-> 0], io |-> "ok"]

NoRet == [ok |-> TRUE, found |-> None, listing |-> <<>>]

IndexIdle ==
    /\ st_op = NoOp
    /\ st_ret = NoRet

MoreIdle == DbnIdle /\ GatherIdle /\ IndexIdle

\* the scheduler task is not running: the state of a function studied on its own
SchedulerIdle ==
    /\ now = 0
    /\ shutdown_flag = FALSE
    /\ run_result = "none"
    /\ exit_result = "none"
    /\ todo = {}
    /\ active_set = {}
    /\ all_jobs = <<>>
    /\ job_i = 1
    /\ existing_containers = {}
    /\ trail = <<>>
    /\ hist = NoHist
    /\ kept_waiting = {}

Init ==
    /\ pc = "reconcile"
    /\ sandboxes \in {S \in SUBSET Names : Cardinality(S) <= max_concurrent_jobs}
    /\ completed = {}
    /\ \E D \in SUBSET Names :
           state_db = [n \in D |-> [slot |-> IdOfName(n), started_at |-> 0]]
    /\ now = 0
    /\ shutdown_flag = FALSE
    /\ run_result = "none"
    /\ exit_result = "none"
    /\ todo = {}
    /\ active_set = {}
    /\ all_jobs = <<>>
    /\ job_i = 1
    /\ existing_containers = {}
    /\ dereg = {}
    /\ trail = <<>>
    /\ hist = [NoHist EXCEPT !.orphans0 = sandboxes \ DOMAIN state_db]
    /\ kept_waiting = {}
    /\ LabelsIdle
    /\ CleanupIdle
    /\ ClientIdle
    /\ MoreIdle

(***************************************************************************)
(* listener.rs: cleanup_container_full.                                    *)
(***************************************************************************)
\* delete_runner_by_name is called and its failure only logged; destroy and
\* remove return their errors to the caller
CleanupFailures == {"none", "destroy", "remove"}

cleanup_container_full(name, fails) ==
    /\ dereg' = dereg \cup {name}
    /\ IF fails = "destroy"
       THEN UNCHANGED <<sandboxes, completed, state_db>>
       ELSE /\ sandboxes' = sandboxes \ {name}
            /\ completed' = completed \ {name}
            /\ state_db' = IF fails = "remove"
                           THEN state_db
                           ELSE remove_container(state_db, name)

NoCleanup == UNCHANGED <<sandboxes, completed, state_db, dereg>>

\* the stale-entry loop of reconcile_on_startup and check_containers
IsStale_Never(name, live) == FALSE

IsStale(name, live) == name \notin live

StaleKeys(db, live) == SelectSeq(list_containers(db), LAMBDA n : IsStale(n, live))

(***************************************************************************)
(* listener.rs: reconcile_on_startup.                                      *)
(***************************************************************************)
ReconcileList ==
    /\ pc = "reconcile"
    /\ \E r \in {"ok", "err"} :
           IF r = "ok"
           THEN /\ todo' = list
                /\ active_set' = list
                /\ pc' = "reconcile_check"
                /\ UNCHANGED run_result
           ELSE /\ run_result' = "err"
                /\ pc' = "shutdown"
                /\ UNCHANGED <<todo, active_set>>
    /\ UNCHANGED <<sandboxes, completed, state_db, now, shutdown_flag, exit_result,
                   all_jobs, job_i, existing_containers, dereg, trail, hist,
                   kept_waiting, other_vars>>

\* what is_runner_completed(name) returns: Ok(true), Ok(false) or Err(_)
probe_result(name, probe) ==
    IF probe = "err" THEN "err" ELSE IF is_runner_completed(name) THEN "true" ELSE "false"

reconcile_cleans_OnlyComplete(name, probe) == probe_result(name, probe) = "true"

\* Ok(true) and Err(_) clean up, Ok(false) leaves the sandbox alone
reconcile_cleans(name, probe) == probe = "err" \/ is_runner_completed(name)

ReconcileCheck ==
    /\ pc = "reconcile_check"
    /\ todo # {}
    /\ \E name \in todo, probe \in {"ok", "err"} :
           /\ hist' = [hist EXCEPT !.probe = <<name, probe_result(name, probe)>>]
           /\ IF reconcile_cleans(name, probe)
              THEN \E fails \in CleanupFailures :
                       /\ cleanup_container_full(name, fails)
                       /\ IF fails = "none"
                          THEN /\ todo' = todo \ {name}
                               /\ UNCHANGED <<pc, run_result>>
                          ELSE /\ todo' = {}
                               /\ run_result' = "err"
                               /\ pc' = "shutdown"
              ELSE /\ NoCleanup
                   /\ todo' = todo \ {name}
                   /\ UNCHANGED <<pc, run_result>>
    /\ UNCHANGED <<now, shutdown_flag, exit_result, active_set, all_jobs, job_i,
                   existing_containers, trail, kept_waiting, other_vars>>

ReconcileSweep ==
    /\ pc = "reconcile_check"
    /\ todo = {}
    /\ \E ls \in {"ok", "err"} :
           IF ls = "err"
           THEN /\ run_result' = "err"
                /\ pc' = "shutdown"
                /\ UNCHANGED state_db
           ELSE LET stale == StaleKeys(state_db, active_set)
                IN \E k \in 0..Len(stale) :
                       /\ state_db' = remove_all(state_db, SubSeq(stale, 1, k))
                       /\ IF k = Len(stale)
                          THEN pc' = "loop" /\ UNCHANGED run_result
                          ELSE pc' = "shutdown" /\ run_result' = "err"
    /\ hist' = [hist EXCEPT !.probe = <<>>]
    /\ UNCHANGED <<sandboxes, completed, now, shutdown_flag, exit_result, todo,
                   active_set, all_jobs, job_i, existing_containers, dereg, trail,
                   kept_waiting, other_vars>>

(***************************************************************************)
(* listener.rs: run, top of the loop, and check_containers (Phase 1).      *)
(***************************************************************************)
shutdown_requested_Never == FALSE

\* *self.shutdown_rx.borrow() at the top of the loop
shutdown_requested == shutdown_flag

LoopTop ==
    /\ pc = "loop"
    /\ IF shutdown_requested
       THEN /\ run_result' = "ok"
            /\ pc' = "shutdown"
            /\ ForgetTick
            /\ UNCHANGED todo
       ELSE /\ UNCHANGED <<run_result, all_jobs, job_i, existing_containers, trail>>
            /\ dereg' = {}
            /\ \E r \in {"ok", "err"} :
                   IF r = "ok"
                   THEN /\ todo' = list
                        /\ active_set' = list
                        /\ pc' = "check"
                        /\ hist' = [Phase1Hist EXCEPT
                               !.stale0 = DOMAIN state_db \ sandboxes,
                               !.reap0 = {n \in sandboxes :
                                             n \in completed \/ n \notin DOMAIN state_db},
                               !.late0 = {n \in sandboxes \cap DOMAIN state_db :
                                             now - state_db[n].started_at > job_timeout},
                               !.p1 = "run"]
                   ELSE /\ todo' = {}
                        /\ active_set' = {}
                        /\ pc' = "dispatch"
                        /\ hist' = [Phase1Hist EXCEPT
                               !.stale0 = DOMAIN state_db \ sandboxes,
                               !.late0 = {n \in sandboxes \cap DOMAIN state_db :
                                             now - state_db[n].started_at > job_timeout},
                               !.p1 = "err"]
    /\ UNCHANGED <<sandboxes, completed, state_db, now, shutdown_flag, exit_result,
                   kept_waiting, other_vars>>

TimedOut_AtLimit(state) == running_seconds(state) >= job_timeout

TimedOut(state) == running_seconds(state) > job_timeout

reap_decision_KeepOrphan(name) ==
    IF is_runner_completed(name) THEN "complete"
    ELSE LET st == get_container(state_db, name)
         IN IF st.some
            THEN (IF TimedOut(st.v) THEN "timeout" ELSE "keep")
            ELSE "keep"

\* what check_containers decides for one sandbox when no call fails
reap_decision(name) ==
    IF is_runner_completed(name) THEN "complete"
    ELSE LET st == get_container(state_db, name)
         IN IF st.some
            THEN (IF TimedOut(st.v) THEN "timeout" ELSE "keep")
            ELSE "orphan"

Phase1Abort_EndsTick ==
    /\ todo' = {}
    /\ pc' = "sleep"
    /\ hist' = [hist EXCEPT !.p1 = "err"]

\* `?` inside check_containers: run logs the error and goes on to Phase 2
Phase1Abort ==
    /\ todo' = {}
    /\ pc' = "dispatch"
    /\ hist' = [hist EXCEPT !.p1 = "err"]

P1Check ==
    /\ pc = "check"
    /\ todo # {}
    /\ \E name \in todo, probe \in {"ok", "err"} :
           IF probe = "err"
           THEN NoCleanup /\ Phase1Abort
           ELSE \E get \in {g \in {"ok", "err"} : g = "ok" \/ ~is_runner_completed(name)} :
                    IF get = "err"
                    THEN NoCleanup /\ Phase1Abort
                    ELSE IF reap_decision(name) = "keep"
                    THEN /\ NoCleanup
                         /\ todo' = todo \ {name}
                         /\ UNCHANGED <<pc, hist>>
                    ELSE \E fails \in CleanupFailures :
                             /\ cleanup_container_full(name, fails)
                             /\ IF fails = "none"
                                THEN /\ todo' = todo \ {name}
                                     /\ UNCHANGED <<pc, hist>>
                                ELSE Phase1Abort
    /\ UNCHANGED <<now, shutdown_flag, run_result, exit_result, active_set, all_jobs,
                   job_i, existing_containers, trail, kept_waiting, other_vars>>

P1Sweep ==
    /\ pc = "check"
    /\ todo = {}
    /\ \E ls \in {"ok", "err"} :
           IF ls = "err"
           THEN /\ hist' = [hist EXCEPT !.p1 = "err"]
                /\ UNCHANGED state_db
           ELSE LET stale == StaleKeys(state_db, active_set)
                IN \E k \in 0..Len(stale) :
                       /\ state_db' = remove_all(state_db, SubSeq(stale, 1, k))
                       /\ hist' = [hist EXCEPT
                              !.p1 = IF k = Len(stale) THEN "ok" ELSE "err"]
    /\ pc' = "dispatch"
    /\ UNCHANGED <<sandboxes, completed, now, shutdown_flag, run_result, exit_result,
                   todo, active_set, all_jobs, job_i, existing_containers, dereg,
                   trail, kept_waiting, other_vars>>

(***************************************************************************)
(* listener.rs: process_queued_jobs (Phase 2) and spawn_container_for_job. *)
(***************************************************************************)
\* the check before any CI query
at_max_Never(active_count) == FALSE

at_max(active_count) == active_count >= max_concurrent_jobs

loop_at_max_OffByOne(current_count) == current_count > max_concurrent_jobs

\* the check at the top of every iteration of the candidate loop
loop_at_max(current_count) == current_count >= max_concurrent_jobs

state_exists_Never(name) == FALSE

\* self.state_db.get_container(&container_name)?.is_some()
state_exists(name) == get_container(state_db, name).some

\* the skips of the candidate loop that need no fallible call, in code order
candidate_filter(job) ==
    IF has_runner(job) THEN "skipped"
    ELSE IF ~is_waiting(job) THEN "skipped"
    ELSE IF ~labels_match(job.labels, runner_labels) THEN "skipped"
    ELSE IF job_id_to_container_name(job.id) \in existing_containers THEN "skipped"
    ELSE "pass"

\* job ids of the list that are waiting and unassigned at every appearance
SeenWaiting(jobs) ==
    {j \in JobIds :
        /\ \E i \in 1..Len(jobs) : jobs[i].id = j
        /\ \A i \in 1..Len(jobs) :
               jobs[i].id = j =>
                   /\ jobs[i].status \in {"queued", "waiting", "pending"}
                   /\ (~jobs[i].runner_id.some \/ jobs[i].runner_id.v = 0)}

P2Start ==
    /\ pc = "dispatch"
    /\ \E c \in {"ok", "err"} :
           IF c = "err"
           THEN /\ hist' = [Phase2Hist EXCEPT !.p2 = "err"]
                /\ pc' = "sleep"
                /\ kept_waiting' = {}
                /\ UNCHANGED <<all_jobs, existing_containers>>
           ELSE IF at_max(count_active)
           THEN /\ hist' = [Phase2Hist EXCEPT !.p2 = "skipped", !.a0 = count_active]
                /\ pc' = "sleep"
                /\ kept_waiting' = {}
                /\ UNCHANGED <<all_jobs, existing_containers>>
           ELSE \E jobs \in SeqsUpTo(JobPool, MaxJobs), l \in {"ok", "err"} :
                /\ kept_waiting' = kept_waiting \cap SeenWaiting(jobs)
                /\ IF l # "ok"
                   THEN /\ hist' = [Phase2Hist EXCEPT !.p2 = l]
                        /\ pc' = "sleep"
                        /\ UNCHANGED <<all_jobs, existing_containers>>
                   ELSE /\ all_jobs' = jobs
                        /\ existing_containers' = list
                        /\ hist' = [Phase2Hist EXCEPT
                               !.a0 = count_active,
                               !.db0 = DOMAIN state_db,
                               !.p2 = IF jobs = <<>> THEN "ok" ELSE "run"]
                        /\ pc' = IF jobs = <<>> THEN "sleep" ELSE "jobs"
    /\ job_i' = 1
    /\ active_set' = {}
    /\ dereg' = {}
    /\ UNCHANGED <<sandboxes, completed, state_db, now, shutdown_flag, run_result,
                   exit_result, todo, trail, other_vars>>

\* the candidate was handled (skipped, failed or launched): on to the next one
NextCandidate(outcome) ==
    /\ trail' = Append(trail, IF outcome = "unauthorized" THEN "failed" ELSE outcome)
    /\ job_i' = job_i + 1
    /\ pc' = IF job_i + 1 > Len(all_jobs) THEN "sleep" ELSE pc
    /\ hist' = [hist EXCEPT
           !.p2 = IF job_i + 1 > Len(all_jobs) THEN "ok" ELSE @,
           !.fatal = IF outcome = "unauthorized" THEN "unauthorized" ELSE @,
           !.again = IF /\ outcome \in {"launched", "put_failed"}
                        /\ all_jobs[job_i].id \in kept_waiting
                        /\ job_id_to_container_name(all_jobs[job_i].id) \notin sandboxes
                     THEN @ \cup {all_jobs[job_i].id} ELSE @]

\* sp: which step of spawn_container_for_job fails, if any
spawn_container_for_job(job_id, sp) ==
    LET name == job_id_to_container_name(job_id)
    IN IF sp \in {"token_err", "token_unauthorized", "spawn_err"}
       THEN UNCHANGED <<sandboxes, state_db, kept_waiting>>
       ELSE /\ sandboxes' = sandboxes \cup {name}
            /\ kept_waiting' = IF sp = "ok" THEN kept_waiting \cup {job_id} ELSE kept_waiting
            /\ state_db' = IF sp = "ok"
                           THEN put_container(state_db, name, ContainerState_new(job_id))
                           ELSE state_db

SpawnOutcome(sp) ==
    CASE sp = "token_err" -> "failed"
      [] sp = "token_unauthorized" -> "unauthorized"
      [] sp = "spawn_err" -> "failed"
      [] sp = "put_err" -> "put_failed"
      [] sp = "ok" -> "launched"

Phase2Return_Fatal(result) ==
    /\ pc' = IF result \in {"err", "corrupt"} THEN "shutdown" ELSE "sleep"
    /\ hist' = [hist EXCEPT !.p2 = result]
    /\ UNCHANGED <<sandboxes, state_db, kept_waiting, trail, job_i>>

\* process_queued_jobs returns; run logs an Err and goes on to the select
Phase2Return(result) ==
    /\ pc' = "sleep"
    /\ hist' = [hist EXCEPT !.p2 = result]
    /\ UNCHANGED <<sandboxes, state_db, kept_waiting, trail, job_i>>

stop_at_cap_Continue ==
    /\ NextCandidate("skipped")
    /\ UNCHANGED <<sandboxes, state_db, kept_waiting>>

\* the break of the candidate loop
stop_at_cap == Phase2Return("ok")

P2Job ==
    /\ pc = "jobs"
    /\ job_i <= Len(all_jobs)
    /\ LET job == all_jobs[job_i]
           name == job_id_to_container_name(job.id)
       IN \E c \in {"ok", "err"} :
              IF c = "err" THEN Phase2Return("err")
              ELSE IF loop_at_max(count_active) THEN stop_at_cap
              ELSE IF candidate_filter(job) # "pass"
              THEN /\ NextCandidate(candidate_filter(job))
                   /\ UNCHANGED <<sandboxes, state_db, kept_waiting>>
              ELSE \E get \in {"ok", "err", "corrupt"} :
                       IF get # "ok" THEN Phase2Return(get)
                       ELSE IF state_exists(name)
                       THEN /\ NextCandidate("skipped")
                            /\ UNCHANGED <<sandboxes, state_db, kept_waiting>>
                       ELSE \E sp \in {"ok", "token_err", "token_unauthorized",
                                         "spawn_err", "put_err"} :
                                /\ spawn_container_for_job(job.id, sp)
                                /\ NextCandidate(SpawnOutcome(sp))
    /\ UNCHANGED <<completed, now, shutdown_flag, run_result, exit_result, todo,
                   active_set, all_jobs, existing_containers, dereg, other_vars>>

(***************************************************************************)
(* listener.rs: run, the inter-tick select; main.rs: the signal task.      *)
(***************************************************************************)
SleepElapsed ==
    /\ pc = "sleep"
    /\ now + poll_interval <= MaxTime
    /\ now' = now + poll_interval
    /\ pc' = "loop"
    /\ ForgetLocals
    /\ hist' = [ClearedHist EXCEPT !.prev = TickFailed, !.lost = PutFailed]
    /\ UNCHANGED <<sandboxes, completed, state_db, shutdown_flag, run_result,
                   exit_result, todo, kept_waiting, other_vars>>

changed_fires_Never == FALSE

\* shutdown_rx.changed() completes when a value not yet seen was sent, also one
\* sent before the select began; the branch breaks when the value is true
changed_fires == shutdown_flag

SleepInterrupted ==
    /\ pc = "sleep"
    /\ changed_fires
    /\ run_result' = "ok"
    /\ pc' = "shutdown"
    /\ ForgetTick
    /\ UNCHANGED <<sandboxes, completed, state_db, now, shutdown_flag, exit_result,
                   todo, kept_waiting, other_vars>>

Signal ==
    /\ pc \notin {"done", "aborted"}
    /\ ~shutdown_flag
    /\ shutdown_flag' = TRUE
    /\ UNCHANGED <<pc, sandboxes, completed, state_db, now, run_result, exit_result,
                   todo, active_set, all_jobs, job_i, existing_containers, dereg,
                   trail, hist, kept_waiting, other_vars>>

\* The runner process inside a sandbox exits.  The exit shows only through
\* is_runner_completed, so it is taken when the sandbox is about to be probed.
RunnerExits ==
    /\ pc \in {"reconcile_check", "check"}
    /\ \E name \in (sandboxes \cap todo) \ completed : completed' = completed \cup {name}
    /\ UNCHANGED <<pc, sandboxes, state_db, now, shutdown_flag, run_result,
                   exit_result, todo, active_set, all_jobs, job_i,
                   existing_containers, dereg, trail, hist, kept_waiting, other_vars>>

(***************************************************************************)
(* listener.rs: shutdown (the drain); main.rs: the exit result.            *)
(***************************************************************************)
shutdown_containers_CompleteOnly == list \cap completed

\* let containers = self.containers.list().await?: every sandbox, no filter
shutdown_containers == list

ShutdownList ==
    /\ pc = "shutdown"
    /\ \E r \in {"ok", "err"} :
           IF r = "ok"
           THEN /\ todo' = shutdown_containers
                /\ hist' = [hist EXCEPT !.drain0 = list, !.probe = <<>>,
                                        !.active0 = list \ completed]
                /\ pc' = "drain"
                /\ UNCHANGED exit_result
           ELSE /\ exit_result' = "err"
                /\ pc' = "aborted"
                /\ UNCHANGED <<todo, hist>>
    /\ dereg' = {}
    /\ UNCHANGED <<sandboxes, completed, state_db, now, shutdown_flag, run_result,
                   active_set, all_jobs, job_i, existing_containers, trail,
                   kept_waiting, other_vars>>

DrainStep ==
    /\ pc = "drain"
    /\ todo # {}
    /\ \E name \in todo, fails \in CleanupFailures :
           /\ cleanup_container_full(name, fails)
           /\ todo' = todo \ {name}
    /\ UNCHANGED <<pc, now, shutdown_flag, run_result, exit_result, active_set,
                   all_jobs, job_i, existing_containers, trail, hist, kept_waiting,
                   other_vars>>

DrainClear ==
    /\ pc = "drain"
    /\ todo = {}
    /\ \E r \in {"ok", "err"} :
           IF r = "ok"
           THEN /\ state_db' = clear_all(state_db)
                /\ exit_result' = IF run_result = "err" THEN "err" ELSE "ok"
                /\ pc' = "done"
           ELSE /\ exit_result' = "err"
                /\ pc' = "aborted"
                /\ UNCHANGED state_db
    /\ UNCHANGED <<sandboxes, completed, now, shutdown_flag, run_result, todo,
                   active_set, all_jobs, job_i, existing_containers, dereg, trail,
                   hist, kept_waiting, other_vars>>

Next ==
    \/ ReconcileList
    \/ ReconcileCheck
    \/ ReconcileSweep
    \/ LoopTop
    \/ P1Check
    \/ P1Sweep
    \/ P2Start
    \/ P2Job
    \/ SleepElapsed
    \/ SleepInterrupted
    \/ Signal
    \/ RunnerExits
    \/ ShutdownList
    \/ DrainStep
    \/ DrainClear

Spec == Init /\ [][Next]_vars

\* the steps of the scheduler task: every call it makes returns
SchedulerStep ==
    \/ ReconcileList
    \/ ReconcileCheck
    \/ ReconcileSweep
    \/ LoopTop
    \/ P1Check
    \/ P1Sweep
    \/ P2Start
    \/ P2Job
    \/ SleepElapsed
    \/ SleepInterrupted
    \/ ShutdownList
    \/ DrainStep
    \/ DrainClear

LiveSpec == Spec /\ WF_vars(SchedulerStep)

(***************************************************************************)
(* labels_match on its own: every pair of label lists within the bound.    *)
(***************************************************************************)
LabelPool == {"self-hosted", "linux", "windows"}

InitLabels ==
    /\ job_labels \in SeqsUpTo(LabelPool, MaxLabels)
    /\ label_set \in SeqsUpTo(LabelPool, MaxLabels)
    /\ match_result = "unset"
    /\ pc = "done"
    /\ sandboxes = {}
    /\ completed = {}
    /\ state_db = <<>>
    /\ now = 0
    /\ shutdown_flag = FALSE
    /\ run_result = "none"
    /\ exit_result = "none"
    /\ todo = {}
    /\ active_set = {}
    /\ all_jobs = <<>>
    /\ job_i = 1
    /\ existing_containers = {}
    /\ dereg = {}
    /\ trail = <<>>
    /\ hist = NoHist
    /\ kept_waiting = {}
    /\ CleanupIdle
    /\ ClientIdle
    /\ MoreIdle

CallLabelsMatch ==
    /\ match_result = "unset"
    /\ match_result' = IF labels_match(job_labels, label_set) THEN "true" ELSE "false"
    /\ UNCHANGED <<job_labels, label_set, sched_vars, cleanup_vars, client_vars,
                   more_vars>>

NextLabels == CallLabelsMatch

SpecLabels == InitLabels /\ [][NextLabels]_vars

(***************************************************************************)
(* cleanup_container_full on its own, call by call: invoked up to MaxRuns  *)
(* times on one name, from any inventory and any State Index.              *)
(***************************************************************************)
Snapshot == [sandboxes |-> sandboxes, state_db |-> state_db]

InitCleanup ==
    /\ pc = "cl_idle"
    /\ sandboxes \in SUBSET Names
    /\ completed = {}
    /\ \E D \in SUBSET Names :
           state_db = [n \in D |-> [slot |-> IdOfName(n), started_at |-> 0]]
    /\ dereg = {}
    /\ cl_name \in Names
    /\ cl_calls = <<>>
    /\ cl_results = <<>>
    /\ cl_pre = Snapshot
    /\ cl_before = Snapshot
    /\ SchedulerIdle
    /\ LabelsIdle
    /\ ClientIdle
    /\ MoreIdle

CleanupReturn(result) ==
    /\ pc' = "cl_idle"
    /\ cl_results' = Append(cl_results, result)

CleanupCall ==
    /\ pc = "cl_idle"
    /\ Len(cl_results) < MaxRuns
    /\ pc' = "cl_deregister"
    /\ cl_calls' = <<>>
    /\ cl_pre' = Snapshot
    /\ UNCHANGED <<sandboxes, completed, state_db, dereg, cl_name, cl_results, cl_before>>

after_deregister_Propagate(r) == IF r = "err" THEN "cl_idle" ELSE "cl_destroy"

\* if let Err(e) = delete_runner_by_name(name) { warn!(..) }: on to destroy either way
after_deregister(r) == "cl_destroy"

CleanupDeregister ==
    /\ pc = "cl_deregister"
    /\ \E r \in {"ok", "err"} :
           /\ cl_calls' = Append(cl_calls, [op |-> "delete_runner_by_name", r |-> r])
           /\ dereg' = dereg \cup {cl_name}
           /\ IF after_deregister(r) = "cl_idle"
              THEN CleanupReturn("err")
              ELSE pc' = after_deregister(r) /\ UNCHANGED cl_results
    /\ UNCHANGED <<sandboxes, completed, state_db, cl_name, cl_pre, cl_before>>

CleanupDestroy ==
    /\ pc = "cl_destroy"
    /\ \E r \in {"ok", "err"} :
           /\ cl_calls' = Append(cl_calls, [op |-> "cleanup_container", r |-> r])
           /\ IF r = "err"
              THEN /\ CleanupReturn("err")
                   /\ UNCHANGED <<sandboxes, completed>>
              ELSE /\ sandboxes' = cleanup_container(sandboxes, cl_name)
                   /\ completed' = cleanup_container(completed, cl_name)
                   /\ pc' = "cl_remove"
                   /\ UNCHANGED cl_results
    /\ UNCHANGED <<state_db, dereg, cl_name, cl_pre, cl_before>>

CleanupRemove ==
    /\ pc = "cl_remove"
    /\ \E r \in {"ok", "err"} :
           /\ cl_calls' = Append(cl_calls, [op |-> "remove_container", r |-> r])
           /\ IF r = "err"
              THEN CleanupReturn("err") /\ UNCHANGED state_db
              ELSE /\ state_db' = remove_container(state_db, cl_name)
                   /\ CleanupReturn("ok")
    /\ UNCHANGED <<sandboxes, completed, dereg, cl_name, cl_pre, cl_before>>

NextCleanup ==
    /\ \/ CleanupCall
       \/ CleanupDeregister
       \/ CleanupDestroy
       \/ CleanupRemove
    /\ UNCHANGED <<now, shutdown_flag, run_result, exit_result, todo, active_set,
                   all_jobs, job_i, existing_containers, trail, hist, kept_waiting,
                   label_vars, client_vars, more_vars>>

SpecCleanup == InitCleanup /\ [][NextCleanup]_vars

(***************************************************************************)
(* github/client.rs: the request loops get, post and delete, one attempt   *)
(* per step, against every sequence of responses.                          *)
(***************************************************************************)
MAX_RETRIES == 3
INITIAL_BACKOFF_MS == 1000

\* what one send() can produce: a transport error (code 0), or a response with a
\* status code and, for the 2xx codes, a body that parses as the expected JSON or not
Responses ==
    {[code |-> c, parses |-> TRUE] : c \in {0, 400, 401, 403, 404, 429, 500}}
        \cup [code : {200, 201, 204}, parses : BOOLEAN]

Methods == {"GET", "POST", "DELETE"}

\* the match arms of each loop: "ok" and "err" return, "retry" sleeps and continues
get_arm_RetryUnauthorized(resp) ==
    IF resp.code = 0 THEN "retry"
    ELSE IF resp.code = 200 THEN (IF resp.parses THEN "ok" ELSE "err")
    ELSE IF resp.code \in {403, 429} THEN "retry"
    ELSE IF resp.code = 404 THEN "err"
    ELSE "retry"

get_arm(resp) ==
    IF resp.code = 0 THEN "retry"
    ELSE IF resp.code = 200 THEN (IF resp.parses THEN "ok" ELSE "err")
    ELSE IF resp.code \in {403, 429} THEN "retry"
    ELSE IF resp.code = 401 THEN "err"
    ELSE IF resp.code = 404 THEN "err"
    ELSE "retry"

post_arm(resp) ==
    IF resp.code = 0 THEN "retry"
    ELSE IF resp.code \in {200, 201} THEN (IF resp.parses THEN "ok" ELSE "err")
    ELSE IF resp.code \in {403, 429} THEN "retry"
    ELSE IF resp.code = 401 THEN "err"
    ELSE "retry"

delete_arm_NotFoundFails(resp) ==
    IF resp.code = 0 THEN "retry"
    ELSE IF resp.code \in {204, 200} THEN "ok"
    ELSE IF resp.code = 404 THEN "err"
    ELSE IF resp.code \in {403, 429} THEN "retry"
    ELSE IF resp.code = 401 THEN "err"
    ELSE "retry"

delete_arm(resp) ==
    IF resp.code = 0 THEN "retry"
    ELSE IF resp.code \in {204, 200} THEN "ok"
    ELSE IF resp.code = 404 THEN "ok"
    ELSE IF resp.code \in {403, 429} THEN "retry"
    ELSE IF resp.code = 401 THEN "err"
    ELSE "retry"

arm(method, resp) ==
    CASE method = "GET" -> get_arm(resp)
      [] method = "POST" -> post_arm(resp)
      [] method = "DELETE" -> delete_arm(resp)

next_backoff_Same(ms) == ms

\* backoff_ms *= 2
next_backoff(ms) == ms * 2

InitClient ==
    /\ pc = "http"
    /\ http_method \in Methods
    /\ http_attempt = 1
    /\ backoff_ms = INITIAL_BACKOFF_MS
    /\ http_seen = <<>>
    /\ http_slept = <<>>
    /\ http_result = "pending"
    /\ sandboxes = {}
    /\ completed = {}
    /\ state_db = <<>>
    /\ dereg = {}
    /\ SchedulerIdle
    /\ LabelsIdle
    /\ CleanupIdle
    /\ MoreIdle

\* one iteration of for attempt in 1..=MAX_RETRIES
HttpAttempt ==
    /\ pc = "http"
    /\ http_result = "pending"
    /\ http_attempt <= MAX_RETRIES
    /\ \E resp \in Responses :
           /\ http_seen' = Append(http_seen, resp)
           /\ IF arm(http_method, resp) = "retry"
              THEN /\ http_slept' = Append(http_slept, backoff_ms)
                   /\ backoff_ms' = next_backoff(backoff_ms)
                   /\ http_attempt' = http_attempt + 1
                   /\ UNCHANGED http_result
              ELSE /\ http_result' = arm(http_method, resp)
                   /\ UNCHANGED <<http_slept, backoff_ms, http_attempt>>
    /\ UNCHANGED http_method

\* the bail after the loop
HttpExhausted ==
    /\ pc = "http"
    /\ http_result = "pending"
    /\ http_attempt > MAX_RETRIES
    /\ http_result' = "err"
    /\ UNCHANGED <<http_method, http_attempt, backoff_ms, http_seen, http_slept>>

NextClient ==
    /\ \/ HttpAttempt
       \/ HttpExhausted
    /\ UNCHANGED <<sched_vars, label_vars, cleanup_vars, more_vars>>

SpecClient == InitClient /\ [][NextClient]_vars

(***************************************************************************)
(* state.rs: the State Index on its own, operation by operation.  The      *)
(* table holds what serde_json::to_vec makes of a ContainerState, a JSON   *)
(* object as bytes, and the reads go through serde_json::from_slice.       *)
(***************************************************************************)
\* the bytes of `{"slot":` and of `,"started_at":`
SlotKey == <<123, 34, 115, 108, 111, 116, 34, 58>>

StartedKey == <<44, 34, 115, 116, 97, 114, 116, 101, 100, 95, 97, 116, 34, 58>>

Digits_LastOnly(n) == <<48 + (n % 10)>>

\* an unsigned integer as JSON: its decimal digits in ASCII
Digits(n) == [i \in 1..Len(Decimal(n)) |-> 48 + Decimal(n)[i]]

to_vec(state) ==
    SlotKey \o Digits(state.slot) \o StartedKey \o Digits(state.started_at) \o <<125>>

\* the index after the digits that begin at i
RECURSIVE DigitsEnd(_, _)
DigitsEnd(data, i) ==
    IF i > Len(data) \/ data[i] \notin 48..57 THEN i ELSE DigitsEnd(data, i + 1)

\* the number written in data[i..j-1]
RECURSIVE Number(_, _, _)
Number(data, i, j) ==
    IF j <= i THEN 0 ELSE 10 * Number(data, i, j - 1) + (data[j - 1] - 48)

from_slice(data) ==
    LET a == Len(SlotKey) + 1
        b == DigitsEnd(data, a)
        c == b + Len(StartedKey)
        d == DigitsEnd(data, c)
    IN IF /\ Len(data) >= a
          /\ SubSeq(data, 1, a - 1) = SlotKey
          /\ b > a
          /\ Len(data) >= c
          /\ SubSeq(data, b, c - 1) = StartedKey
          /\ d > c
          /\ d = Len(data)
          /\ data[d] = 125
       THEN Some([slot |-> Number(data, a, b), started_at |-> Number(data, c, d)])
       ELSE None

\* the ContainerState values the scheduler may hold
States == [slot : JobIds, started_at : 0..MaxTime]

InitState ==
    /\ pc = "index"
    /\ sandboxes = {}
    /\ completed = {}
    /\ state_db = <<>>
    /\ dereg = {}
    /\ SchedulerIdle
    /\ LabelsIdle
    /\ CleanupIdle
    /\ ClientIdle
    /\ DbnIdle
    /\ GatherIdle
    /\ IndexIdle

\* every operation runs in a transaction of its own; io = "err" is a failure
\* of the database (begin, open_table, commit), which leaves the table as it was
PutContainer ==
    \E name \in Names, a \in States, io \in {"ok", "err"} :
        /\ st_op' = [op |-> "put", name |-> name, a |-> a, io |-> io]
        /\ st_ret' = [NoRet EXCEPT !.ok = (io = "ok")]
        /\ state_db' = IF io = "ok" THEN put_container(state_db, name, to_vec(a))
                       ELSE state_db

GetContainer ==
    \E name \in Names, io \in {"ok", "err"} :
        LET data == get_container(state_db, name)
            state == IF data.some THEN from_slice(data.v) ELSE None
        IN /\ st_op' = [NoOp EXCEPT !.op = "get", !.name = name, !.io = io]
           /\ st_ret' = IF io = "err" \/ (data.some /\ ~state.some)
                        THEN [NoRet EXCEPT !.ok = FALSE]
                        ELSE [NoRet EXCEPT !.found = state]
           /\ UNCHANGED state_db

RemoveContainer ==
    \E name \in Names, io \in {"ok", "err"} :
        /\ st_op' = [NoOp EXCEPT !.op = "remove", !.name = name, !.io = io]
        /\ st_ret' = [NoRet EXCEPT !.ok = (io = "ok")]
        /\ state_db' = IF io = "ok" THEN remove_container(state_db, name) ELSE state_db

ListContainers ==
    \E io \in {"ok", "err"} :
        LET keys == list_containers(state_db)
            parsed == [i \in 1..Len(keys) |-> from_slice(state_db[keys[i]])]
        IN /\ st_op' = [NoOp EXCEPT !.op = "list", !.io = io]
           /\ st_ret' = IF io = "err" \/ \E i \in 1..Len(keys) : ~parsed[i].some
                        THEN [NoRet EXCEPT !.ok = FALSE]
                        ELSE [NoRet EXCEPT !.listing =
                                 [i \in 1..Len(keys) |-> <<keys[i], parsed[i].v>>]]
           /\ UNCHANGED state_db

ClearAll ==
    \E io \in {"ok", "err"} :
        /\ st_op' = [NoOp EXCEPT !.op = "clear", !.io = io]
        /\ st_ret' = [NoRet EXCEPT !.ok = (io = "ok")]
        /\ state_db' = IF io = "ok" THEN clear_all(state_db) ELSE state_db

NextState ==
    /\ pc = "index"
    /\ \/ PutContainer
       \/ GetContainer
       \/ RemoveContainer
       \/ ListContainers
       \/ ClearAll
    /\ UNCHANGED <<pc, sandboxes, completed, now, shutdown_flag, run_result,
                   exit_result, todo, active_set, all_jobs, job_i, existing_containers,
                   dereg, trail, hist, kept_waiting, label_vars, cleanup_vars,
                   client_vars, dbn_vars, gather_vars>>

SpecState == InitState /\ [][NextState]_vars

(***************************************************************************)
(* listener.rs: process_queued_jobs with its gather loop taken query by    *)
(* query: one list_workflow_runs per status, one list_jobs_for_run per run.*)
(***************************************************************************)
Statuses == <<"queued", "waiting", "pending", "in_progress">>

extend_Replace(collected, jobs) == jobs

\* all_jobs.extend(jobs)
extend(collected, jobs) == collected \o jobs

InitGather ==
    /\ pc = "g_count"
    /\ sandboxes \in SUBSET Names
    /\ completed = {}
    /\ \E D \in {{}, sandboxes} :
           state_db = [n \in D |-> [slot |-> IdOfName(n), started_at |-> 0]]
    /\ dereg = {}
    /\ SchedulerIdle
    /\ LabelsIdle
    /\ CleanupIdle
    /\ ClientIdle
    /\ DbnIdle
    /\ GatherIdle
    /\ IndexIdle

\* count_active()? and the check against max_concurrent_jobs
GatherCount ==
    /\ pc = "g_count"
    /\ \E c \in {"ok", "err"} :
           IF c = "err"
           THEN /\ hist' = [ClearedHist EXCEPT !.p2 = "err"]
                /\ pc' = "sleep"
                /\ UNCHANGED gather_status
           ELSE IF at_max(count_active)
           THEN /\ hist' = [ClearedHist EXCEPT !.p2 = "skipped", !.a0 = count_active]
                /\ pc' = "sleep"
                /\ UNCHANGED gather_status
           ELSE /\ hist' = [ClearedHist EXCEPT !.a0 = count_active]
                /\ pc' = "g_status"
                /\ gather_status' = 1
    /\ all_jobs' = <<>>
    /\ UNCHANGED <<sandboxes, completed, state_db, now, shutdown_flag, run_result,
                   exit_result, todo, active_set, job_i, existing_containers, dereg,
                   trail, kept_waiting, label_vars, cleanup_vars, client_vars,
                   dbn_vars, index_vars, pending_runs, gather_last, gather_partial,
                   ci_called>>

\* the `for status` loop goes on to its next status, or is over
NextStatus ==
    IF gather_status = Len(Statuses)
    THEN pc' = "g_list" /\ gather_status' = 0
    ELSE pc' = "g_status" /\ gather_status' = gather_status + 1

\* list_workflow_runs(status): Err is logged, Ok(runs) starts the `for run` loop
GatherStatus ==
    /\ pc = "g_status"
    /\ ci_called' = TRUE
    /\ \E r \in {[ok |-> FALSE, runs |-> 0]} \cup [ok : {TRUE}, runs : 0..MaxWorkflowRuns] :
           IF ~r.ok
           THEN /\ gather_last' = "status_err"
                /\ gather_partial' = TRUE
                /\ pending_runs' = 0
                /\ NextStatus
           ELSE /\ gather_last' = "status_ok"
                /\ pending_runs' = r.runs
                /\ UNCHANGED gather_partial
                /\ IF r.runs = 0 THEN NextStatus
                   ELSE pc' = "g_runs" /\ UNCHANGED gather_status
    /\ UNCHANGED <<sched_vars_but_pc, all_jobs, label_vars, cleanup_vars, client_vars,
                   dbn_vars, index_vars>>

\* list_jobs_for_run(run.id): Err is logged, Ok(jobs) extends all_jobs
GatherRun ==
    /\ pc = "g_runs"
    /\ pending_runs > 0
    /\ \E r \in {[ok |-> FALSE, jobs |-> <<>>]} \cup [ok : {TRUE}, jobs : SeqsUpTo(JobPool, MaxJobs)] :
           IF ~r.ok
           THEN /\ gather_last' = "run_err"
                /\ gather_partial' = TRUE
                /\ UNCHANGED all_jobs
           ELSE /\ Len(all_jobs) + Len(r.jobs) <= MaxJobs
                /\ gather_last' = "run_ok"
                /\ all_jobs' = extend(all_jobs, r.jobs)
                /\ UNCHANGED gather_partial
    /\ pending_runs' = pending_runs - 1
    /\ IF pending_runs = 1 THEN NextStatus
       ELSE UNCHANGED <<pc, gather_status>>
    /\ UNCHANGED <<sched_vars_but_pc, label_vars, cleanup_vars, client_vars,
                   dbn_vars, index_vars, ci_called>>

\* self.containers.list().await? and the start of the candidate loop
GatherList ==
    /\ pc = "g_list"
    /\ \E l \in {"ok", "err"} :
           IF l = "err"
           THEN /\ hist' = [hist EXCEPT !.p2 = "err"]
                /\ pc' = "sleep"
                /\ UNCHANGED existing_containers
           ELSE /\ existing_containers' = list
                /\ hist' = [hist EXCEPT
                       !.db0 = DOMAIN state_db,
                       !.p2 = IF all_jobs = <<>> THEN "ok" ELSE "run"]
                /\ pc' = IF all_jobs = <<>> THEN "sleep" ELSE "jobs"
    /\ gather_last' = "-"
    /\ UNCHANGED <<sandboxes, completed, state_db, now, shutdown_flag, run_result,
                   exit_result, todo, active_set, all_jobs, job_i, dereg, trail,
                   kept_waiting, label_vars, cleanup_vars, client_vars, dbn_vars,
                   index_vars, gather_status, pending_runs, gather_partial, ci_called>>

NextGather ==
    \/ GatherCount
    \/ GatherStatus
    \/ GatherRun
    \/ GatherList
    \/ P2Job

SpecGather == InitGather /\ [][NextGather]_vars

(***************************************************************************)
(* github/client.rs: delete_runner_by_name, a list_runners (GET) followed, *)
(* when the listing has a runner of that name, by a delete_runner (DELETE).*)
(***************************************************************************)
\* runners.into_iter().find(|r| r.name == name).map(|r| r.id)
find_runner_by_name(listing, name) == IF name \in listing THEN Some(IdOfName(name)) ELSE None

StartRequest(method) ==
    /\ http_method' = method
    /\ http_attempt' = 1
    /\ backoff_ms' = INITIAL_BACKOFF_MS
    /\ http_seen' = <<>>
    /\ http_slept' = <<>>
    /\ http_result' = "pending"

InitDeregister ==
    /\ pc = "http"
    /\ http_method = "GET"
    /\ http_attempt = 1
    /\ backoff_ms = INITIAL_BACKOFF_MS
    /\ http_seen = <<>>
    /\ http_slept = <<>>
    /\ http_result = "pending"
    /\ dbn_name \in Names
    /\ dbn_listing \in SUBSET Names
    /\ dbn_stage = "find"
    /\ dbn_result = "pending"
    /\ sandboxes = {}
    /\ completed = {}
    /\ state_db = <<>>
    /\ dereg = {}
    /\ SchedulerIdle
    /\ LabelsIdle
    /\ CleanupIdle
    /\ GatherIdle
    /\ IndexIdle

\* list_runners has returned: `?` on its error, else the delete or nothing to delete
DbnFound ==
    /\ dbn_stage = "find"
    /\ dbn_result = "pending"
    /\ http_result # "pending"
    /\ IF http_result = "err"
       THEN /\ dbn_result' = "err"
            /\ UNCHANGED <<dbn_stage, client_vars>>
       ELSE IF find_runner_by_name(dbn_listing, dbn_name).some
       THEN /\ dbn_stage' = "delete"
            /\ StartRequest("DELETE")
            /\ UNCHANGED dbn_result
       ELSE /\ dbn_result' = "ok"
            /\ UNCHANGED <<dbn_stage, client_vars>>
    /\ UNCHANGED <<dbn_name, dbn_listing>>

\* delete_runner has returned: `?` on its error, else Ok(())
DbnDeleted ==
    /\ dbn_stage = "delete"
    /\ dbn_result = "pending"
    /\ http_result # "pending"
    /\ dbn_result' = http_result
    /\ UNCHANGED <<dbn_name, dbn_listing, dbn_stage, client_vars>>

NextDeregister ==
    /\ \/ HttpAttempt /\ UNCHANGED dbn_vars
       \/ HttpExhausted /\ UNCHANGED dbn_vars
       \/ DbnFound
       \/ DbnDeleted
    /\ UNCHANGED <<sched_vars, label_vars, cleanup_vars, gather_vars, index_vars>>

SpecDeregister == InitDeregister /\ [][NextDeregister]_vars

(***************************************************************************)
(* Vocabulary of the properties, spelled out independently of the          *)
(* operators above.                                                        *)
(***************************************************************************)
NameOf == [j \in JobIds |-> IF j = 12 THEN <<"ci-runner-", 1, 2>> ELSE <<"ci-runner-", j>>]

InLoop == pc \in {"loop", "check", "dispatch", "jobs", "sleep"}

\* startup reconcile has returned Ok and no tick has begun
ReconcileDone == pc = "loop" /\ hist.fresh

Waiting(job) == job.status = "queued" \/ job.status = "waiting" \/ job.status = "pending"

Unassigned(job) == ~job.runner_id.some \/ job.runner_id.v = 0

LabelsSubset(job) == \A i \in 1..Len(job.labels) : job.labels[i] \in Range(runner_labels)

\* this step handles candidate job_i and the driver launched a sandbox for it
LaunchStep ==
    /\ pc = "jobs"
    /\ Len(trail') = Len(trail) + 1
    /\ trail'[Len(trail')] \in {"launched", "put_failed"}

C2_Original == hist.again = {}

\* C2 (amended): a sandbox is launched for a job only while neither the tick's
\* inventory snapshot nor the State Index holds the job's derived name, so a job
\* whose launch was recorded is not launched again while its entry stands, even
\* when it appears several times in the candidate list.
C2_NoLaunchWhileRecorded ==
    [][LaunchStep =>
          /\ NameOf[all_jobs[job_i].id] \notin DOMAIN state_db
          /\ NameOf[all_jobs[job_i].id] \notin existing_containers]_vars

\* a job appears twice in the list: launched at its first appearance, skipped at its second
C2_Witness ==
    /\ Len(trail) = 2
    /\ all_jobs[1].id = all_jobs[2].id
    /\ trail[1] = "launched"
    /\ trail[2] = "skipped"

C4_LaunchOnlyIfEligible ==
    [][(\/ LaunchStep
        \/ ~(sandboxes' \subseteq sandboxes)
        \/ ~(DOMAIN state_db' \subseteq DOMAIN state_db))
       => /\ pc = "jobs"
          /\ Waiting(all_jobs[job_i])
          /\ Unassigned(all_jobs[job_i])
          /\ LabelsSubset(all_jobs[job_i])
          /\ NameOf[all_jobs[job_i].id] \notin existing_containers
          /\ NameOf[all_jobs[job_i].id] \notin DOMAIN state_db
          /\ sandboxes' \subseteq sandboxes \cup {NameOf[all_jobs[job_i].id]}
          /\ DOMAIN state_db' \subseteq DOMAIN state_db \cup {NameOf[all_jobs[job_i].id]}]_vars

\* a tick launched one candidate and skipped another
C4_Witness ==
    /\ pc = "sleep"
    /\ \E i \in 1..Len(trail) : trail[i] = "launched"
    /\ \E i \in 1..Len(trail) : trail[i] = "skipped" /\ ~LabelsSubset(all_jobs[i])

\* C5: labels_match(J, R) is true exactly when every label of J is an element
\* of R: true for empty J, false for non-empty J with empty R.
C5_LabelsMatchIsSubset ==
    match_result # "unset" =>
        /\ (match_result = "true") <=>
               (\A i \in 1..Len(job_labels) : \E k \in 1..Len(label_set) :
                    job_labels[i] = label_set[k])
        /\ job_labels = <<>> => match_result = "true"
        /\ (job_labels # <<>> /\ label_set = <<>>) => match_result = "false"

\* the second label of the job decides
C5_Witness ==
    /\ match_result = "false"
    /\ Len(job_labels) = 2
    /\ \E k \in 1..Len(label_set) : job_labels[1] = label_set[k]

\* C6: when startup reconcile has completed, the live sandboxes that are not
\* complete and the State Index entries coincide.
C6_ReconcileRestoresInvariant ==
    ReconcileDone =>
        /\ \A n \in sandboxes \ completed : n \in DOMAIN state_db
        /\ \A n \in DOMAIN state_db : n \in sandboxes

\* C7: when startup reconcile has completed, every sandbox that was on the host
\* without a State Index entry is destroyed and its deregistration was attempted.
C7_OrphanReapedAtStartup ==
    ReconcileDone => \A n \in hist.orphans0 : n \notin sandboxes /\ n \in dereg

(***************************************************************************)
(* What Phase 2 is expected to do with a candidate list, computed from the *)
(* list, the inventory snapshot and the State Index as Phase 2 found them. *)
(***************************************************************************)
BaseEligible(i) ==
    /\ Waiting(all_jobs[i])
    /\ Unassigned(all_jobs[i])
    /\ LabelsSubset(all_jobs[i])
    /\ NameOf[all_jobs[i].id] \notin existing_containers
    /\ NameOf[all_jobs[i].id] \notin hist.db0

\* a second appearance of a job that is launched at its first is not eligible
Eligible(i) ==
    /\ BaseEligible(i)
    /\ \A m \in 1..(i - 1) : ~(BaseEligible(m) /\ all_jobs[m].id = all_jobs[i].id)

EligibleSet == {i \in 1..Len(all_jobs) : Eligible(i)}

Min(a, b) == IF a <= b THEN a ELSE b

Quota == Min(max_concurrent_jobs - hist.a0, Cardinality(EligibleSet))

FirstEligible(n) == {i \in EligibleSet : Cardinality({m \in EligibleSet : m < i}) < n}

Launched == {i \in 1..Len(trail) : trail[i] = "launched"}

LaunchedNames == {NameOf[all_jobs[i].id] : i \in Launched}

\* Phase 2 of this tick is over and none of its calls failed
CleanPhase2 ==
    /\ pc = "sleep"
    /\ hist.p2 \in {"ok", "skipped"}
    /\ \A i \in 1..Len(trail) : trail[i] \in {"launched", "skipped"}

\* C8: in a tick without failures, with a live sandboxes at the start of Phase 2
\* and k eligible candidates, exactly the first min(max_concurrent - a, k)
\* eligible candidates are launched, in list order; the loop stops at the first
\* candidate examined at the cap and the later candidates are not handled.
C8_FirstEligibleWins ==
    CleanPhase2 =>
        /\ Launched = FirstEligible(Quota)
        /\ Len(trail) = IF Quota > 0 /\ Quota = max_concurrent_jobs - hist.a0
                        THEN CHOOSE i \in Launched : \A m \in Launched : m <= i
                        ELSE Len(all_jobs)
        /\ hist.p2 = "ok" =>
               /\ sandboxes = existing_containers \cup LaunchedNames
               /\ DOMAIN state_db = hist.db0 \cup LaunchedNames

\* the cap is reached while an eligible candidate is still in the list
C8_Witness ==
    /\ CleanPhase2
    /\ Launched # {}
    /\ Len(trail) < Len(all_jobs)
    /\ Eligible(Len(trail) + 1)

EndOfTick ==
    pc = "sleep" =>
        \A i \in Launched :
            /\ NameOf[all_jobs[i].id] \in sandboxes
            /\ NameOf[all_jobs[i].id] \in DOMAIN state_db
            /\ state_db[NameOf[all_jobs[i].id]] =
                   [slot |-> all_jobs[i].id, started_at |-> now]

CleanupOrder == <<"delete_runner_by_name", "cleanup_container", "remove_container">>

\* C12: a full cleanup calls delete_runner_by_name, then destroy, then the State
\* Index remove, in that order; destroy is called whatever delete_runner_by_name
\* returned, and remove whenever destroy succeeded; a failed destroy is returned
\* to the caller as an error and leaves the State Index as it was.
C12_CleanupOrder ==
    /\ \A i \in 1..Len(cl_calls) : i <= 3 /\ cl_calls[i].op = CleanupOrder[i]
    /\ (pc = "cl_idle" /\ cl_results # <<>>) =>
           /\ Len(cl_calls) >= 2
           /\ cl_calls[2].r = "ok" => Len(cl_calls) = 3
           /\ cl_calls[2].r = "err" =>
                  /\ Len(cl_calls) = 2
                  /\ cl_results[Len(cl_results)] = "err"
                  /\ state_db = cl_pre.state_db
                  /\ sandboxes = cl_pre.sandboxes
           /\ cl_results[Len(cl_results)] = "ok" <=>
                  (Len(cl_calls) = 3 /\ cl_calls[2].r = "ok" /\ cl_calls[3].r = "ok")

\* deregistration failed, and the sandbox and its entry were removed all the same
C12_Witness ==
    /\ pc = "cl_idle"
    /\ Len(cl_calls) = 3
    /\ cl_calls[1].r = "err"
    /\ cl_results[Len(cl_results)] = "ok"
    /\ cl_name \in cl_pre.sandboxes
    /\ cl_name \in DOMAIN cl_pre.state_db
    /\ cl_name \notin sandboxes
    /\ cl_name \notin DOMAIN state_db

\* C13: once an invocation of full cleanup on a name has succeeded, the sandbox
\* and the entry of that name are absent and everything else is as it was before
\* the first invocation, and every further invocation leaves it so; this is also
\* the state reached by a successful retry after an invocation that failed.
C13_CleanupIdempotent ==
    (\E i \in 1..Len(cl_results) : cl_results[i] = "ok") =>
        /\ sandboxes = cl_before.sandboxes \ {cl_name}
        /\ DOMAIN state_db = DOMAIN cl_before.state_db \ {cl_name}
        /\ \A n \in DOMAIN state_db : state_db[n] = cl_before.state_db[n]

\* the first invocation destroyed the sandbox and failed at the remove, the retry succeeded
C13_Witness ==
    /\ cl_results = <<"err", "ok">>
    /\ cl_name \in cl_before.sandboxes
    /\ cl_name \notin cl_pre.sandboxes
    /\ cl_name \in DOMAIN cl_pre.state_db
    /\ cl_name \notin DOMAIN state_db

\* C14: the drain applies full cleanup to every sandbox it enumerated, going on
\* to the next sandbox whatever the cleanup of one returned, and then clears the
\* State Index: when shutdown has returned Ok the State Index is empty and
\* deregistration and destroy were attempted for every enumerated sandbox.
C14_DrainCompletes ==
    [][/\ (pc = "drain" /\ todo # {} /\ shutdown_flag' = shutdown_flag) =>
              /\ pc' = "drain"
              /\ \E n \in todo : todo' = todo \ {n} /\ n \in dereg'
       /\ (pc = "drain" /\ pc' # "drain") => todo = {} /\ hist.drain0 \subseteq dereg
       /\ pc' = "done" =>
              /\ DOMAIN state_db' = {}
              /\ hist'.drain0 \subseteq dereg']_vars

\* of two sandboxes the drain enumerated, one could not be destroyed and the
\* other was, and the State Index was cleared
C14_Witness ==
    /\ pc = "done"
    /\ Cardinality(hist.drain0) = 2
    /\ Cardinality(sandboxes) = 1
    /\ state_db = <<>>

Draining == pc \in {"shutdown", "drain", "done", "aborted"}

\* C15: a step from the top of the loop begins a tick exactly when the flag is
\* false and otherwise leaves the loop; the sleep ends either by elapsing, back
\* to the top of the loop, or by the flag, out of the loop; shutdown() is entered
\* only from the top of the loop or from the sleep (or from a failed startup
\* reconcile), never from inside Phase 1 or Phase 2, with no sandbox of the tick
\* left to examine; and once it is entered no step of a tick follows.
C15_CooperativeCancellation ==
    [][/\ (pc = "loop" /\ pc' # "loop") =>
              IF shutdown_flag THEN pc' = "shutdown" ELSE pc' \in {"check", "dispatch"}
       /\ (pc = "sleep" /\ pc' # "sleep") =>
              /\ pc' \in {"loop", "shutdown"}
              /\ pc' = "shutdown" => shutdown_flag
       /\ (pc' = "shutdown" /\ pc # "shutdown") =>
              /\ pc \in {"loop", "sleep", "reconcile", "reconcile_check"}
              /\ pc \in {"loop", "sleep"} => shutdown_flag /\ todo = {} /\ run_result' = "ok"
              /\ pc \in {"reconcile", "reconcile_check"} => run_result' = "err"
       /\ Draining => Draining'
       /\ pc' \in {"check", "jobs"} => ~Draining]_vars

\* the flag was set in a tick that launched a sandbox, and the drain began afterwards
C15_Witness ==
    /\ pc = "drain"
    /\ shutdown_flag
    /\ run_result = "ok"
    /\ kept_waiting # {}
    /\ todo # {}

\* C16: when every call of the scheduler returns, a shutdown flag that is true,
\* wherever the scheduler is when it is set, leads to the scheduler leaving the
\* loop and shutdown() enumerating the sandboxes or failing to.
C16_ShutdownLiveness == shutdown_flag ~> pc \in {"drain", "done", "aborted"}

\* the flag is set while the scheduler is in the sleep after a tick
C16_Witness == pc = "sleep" /\ shutdown_flag /\ hist.p2 = "ok" /\ trail # <<>>

\* C19: after a CI call of a tick returned 401, or a State Index read returned
\* data that does not parse, no further tick begins.
C19_FatalStopsController ==
    [][(pc = "sleep" /\ (hist.fatal = "unauthorized" \/ hist.p2 = "corrupt")) =>
           pc' # "loop"]_vars

\* the outcomes the claims call retriable: 403, 429, 5xx and a transport error
Retriable(resp) == resp.code \in {0, 403, 429} \/ resp.code >= 500

\* the success status of each kind of request, with a body the caller can read
Expected2xx(method, resp) ==
    \/ method = "GET" /\ resp.code = 200 /\ resp.parses
    \/ method = "POST" /\ resp.code \in {200, 201} /\ resp.parses
    \/ method = "DELETE" /\ resp.code \in {200, 204}

\* attempt n was the last one and no backoff followed it
EndedAt(n) == Len(http_seen) = n /\ Len(http_slept) = n - 1

\* C17: a CI operation makes at most 3 attempts; a retriable outcome of attempt n
\* is followed by a backoff of 2^(n-1) seconds and, for n < 3, by attempt n+1; the
\* expected 2xx (with a body that parses) on any attempt returns success at once;
\* when every attempt is a retriable failure the operation returns failure after
\* exactly 3 attempts and backoffs of 1 s, 2 s and 4 s.
C17_BoundedRetry ==
    /\ Len(http_seen) <= 3
    /\ \A n \in 1..Len(http_seen) :
           /\ Retriable(http_seen[n]) =>
                  /\ Len(http_slept) >= n
                  /\ http_slept[n] = 1000 * 2^(n - 1)
                  /\ (n < 3 /\ http_result # "pending") => Len(http_seen) > n
                  /\ n < 3 => http_attempt > n
           /\ Expected2xx(http_method, http_seen[n]) => http_result = "ok" /\ EndedAt(n)
    /\ (http_result # "pending" /\ \A n \in 1..Len(http_seen) : Retriable(http_seen[n])) =>
           /\ http_result = "err"
           /\ Len(http_seen) = 3
           /\ http_slept = <<1000, 2000, 4000>>

\* a transport error, a 429 and a 500: failure after three attempts
C17_Witness ==
    /\ http_result = "err"
    /\ Len(http_seen) = 3
    /\ http_seen[1].code = 0
    /\ http_seen[2].code = 429
    /\ http_seen[3].code = 500
    /\ http_slept = <<1000, 2000, 4000>>

\* C18: a 401 on any attempt of a GET, POST or DELETE ends the operation with a
\* failure: it is the last attempt and no backoff follows it.
C18_UnauthorizedIsFatal ==
    \A n \in 1..Len(http_seen) :
        http_seen[n].code = 401 => http_result = "err" /\ EndedAt(n)

\* a DELETE is answered 401 at its second attempt
C18_Witness ==
    /\ http_method = "DELETE"
    /\ Len(http_seen) = 2
    /\ http_seen[2].code = 401
    /\ http_result = "err"
    /\ http_slept = <<1000>>

\* C20: a 404 on an attempt of a GET or a POST ends the operation with a failure:
\* it is the last attempt and no backoff follows it.
C20_NotFoundNotRetried ==
    http_method \in {"GET", "POST"} =>
        \A n \in 1..Len(http_seen) :
            http_seen[n].code = 404 => http_result = "err" /\ EndedAt(n)

\* C21: delete_runner_by_name returns success when the runner listing has no
\* runner of that name, and then no DELETE is sent; and it returns success when
\* the DELETE it sends is answered 404, on whichever attempt.
C21_AbsentRunnerIsSuccess ==
    /\ dbn_name \notin dbn_listing =>
           /\ http_method = "GET"
           /\ dbn_stage = "find"
           /\ (http_result = "ok" /\ dbn_result # "pending") => dbn_result = "ok"
    /\ \A n \in 1..Len(http_seen) :
           (http_method = "DELETE" /\ http_seen[n].code = 404) =>
               /\ EndedAt(n)
               /\ http_result = "ok"
               /\ dbn_result \in {"pending", "ok"}
    /\ (dbn_result = "err") =>
           http_result = "err"

\* the listing has the runner, and the DELETE is answered 404 at its second attempt
C21_Witness ==
    /\ dbn_result = "ok"
    /\ dbn_name \in dbn_listing
    /\ http_method = "DELETE"
    /\ Len(http_seen) = 2
    /\ http_seen[1].code = 500
    /\ http_seen[2].code = 404

GatherQuery == pc \in {"g_status", "g_runs"}

\* C22: a list_workflow_runs or list_jobs_for_run that fails leaves the jobs
\* gathered so far in place and the gather loop goes on with its next query; the
\* jobs of the queries that succeed are the candidate list, in query order; and
\* in a tick where some query failed and no other call does, the first eligible
\* candidates up to the free capacity are launched in that same tick.
C22_PartialVisibility ==
    [][/\ (GatherQuery /\ gather_last' \in {"status_err", "run_err"}) =>
              /\ all_jobs' = all_jobs
              /\ pc' \in {"g_status", "g_runs", "g_list"}
              /\ hist' = hist
       /\ (GatherQuery \/ pc = "g_list") =>
              /\ Len(all_jobs') >= Len(all_jobs)
              /\ SubSeq(all_jobs', 1, Len(all_jobs)) = all_jobs
       /\ pc = "g_list" => all_jobs' = all_jobs
       /\ (gather_partial /\ CleanPhase2)' => (Launched = FirstEligible(Quota))']_vars

\* a query failed, a later one returned a job, and that job was launched in the tick
C22_Witness ==
    /\ CleanPhase2
    /\ gather_partial
    /\ Len(all_jobs) = 2
    /\ Launched = {2}

\* C26: when count_active() is at or above max_concurrent at the start of
\* Phase 2, the tick makes no CI query, mints no credential and launches
\* nothing; every launch is made in a step that has just read a count below
\* max_concurrent; and Phase 2 never takes the live count from at most
\* max_concurrent to above it.
C26_LaunchGuardedByCount ==
    [][/\ (pc = "g_count" /\ Cardinality(sandboxes) >= max_concurrent_jobs) =>
              /\ pc' = "sleep"
              /\ ~ci_called'
              /\ trail' = <<>>
              /\ sandboxes' = sandboxes
              /\ state_db' = state_db
       /\ (LaunchStep \/ sandboxes' # sandboxes) =>
              /\ pc = "jobs"
              /\ Cardinality(sandboxes) < max_concurrent_jobs
              /\ Cardinality(sandboxes') <= Cardinality(sandboxes) + 1
       /\ Cardinality(sandboxes) <= max_concurrent_jobs =>
              Cardinality(sandboxes') <= max_concurrent_jobs]_vars

\* Phase 2 began above the cap and returned at once
C26_Witness ==
    /\ pc = "sleep"
    /\ hist.p2 = "skipped"
    /\ hist.a0 > max_concurrent_jobs
    /\ ~ci_called
    /\ trail = <<>>

TickPcs == {"loop", "check", "dispatch", "jobs", "sleep"}

\* C23: an error in Phase 1 or Phase 2 never ends the loop and leaves nothing
\* behind in the scheduler: the loop is left only with the shutdown flag set;
\* when the sleep is over the locals of the tick are gone, whatever the tick
\* returned; and the next tick begins Phase 1 and then Phase 2.
C23_FailuresDoNotPoison ==
    [][/\ (pc \in TickPcs /\ pc' \notin TickPcs) =>
              /\ shutdown_flag
              /\ pc \in {"loop", "sleep"}
              /\ pc' = "shutdown"
              /\ run_result' = "ok"
       /\ (pc = "sleep" /\ pc' = "loop") =>
              /\ active_set' = {}
              /\ all_jobs' = <<>>
              /\ job_i' = 1
              /\ existing_containers' = {}
              /\ trail' = <<>>
              /\ todo' = {}
              /\ sandboxes' = sandboxes
              /\ state_db' = state_db
       /\ (pc = "loop" /\ ~shutdown_flag /\ pc' # "loop") =>
              /\ pc' \in {"check", "dispatch"}
              /\ hist'.p1 \in {"run", "err"}
       /\ pc = "check" => pc' \in {"check", "dispatch"}
       /\ (pc = "dispatch" /\ pc' # "dispatch") =>
              /\ pc' \in {"jobs", "sleep"}
              /\ hist'.p2 # "-"
       /\ pc = "jobs" => pc' \in {"jobs", "sleep"}]_vars

\* the tick after a failed one completed Phase 1 and launched in Phase 2
C23_Witness ==
    /\ pc = "sleep"
    /\ hist.prev
    /\ hist.p1 = "ok"
    /\ CleanPhase2
    /\ Launched # {}

\* C27: startup reconcile calls the full cleanup for a sandbox whose
\* is_runner_completed answers true or fails, and leaves a sandbox whose answer
\* is false as it was: live, with its State Index entry unchanged.
C27_ReconcileProbe ==
    [][(pc = "reconcile_check" /\ todo' # todo) =>
          LET name == hist'.probe[1]
              result == hist'.probe[2]
          IN /\ name \in todo
             /\ name \in sandboxes
             /\ result = "true" => name \in completed
             /\ result = "false" => name \notin completed
             /\ result \in {"true", "err"} =>
                    /\ name \in dereg'
                    /\ \/ /\ name \notin sandboxes'
                          /\ name \notin DOMAIN state_db'
                          /\ pc' = pc
                       \/ /\ pc' = "shutdown"
                          /\ run_result' = "err"
             /\ result = "false" =>
                    /\ name \in sandboxes'
                    /\ sandboxes' = sandboxes
                    /\ state_db' = state_db
                    /\ dereg' = dereg
                    /\ pc' = pc]_vars

\* one sandbox was cleaned up, and the one probed last is active and left alone
C27_Witness ==
    /\ pc = "reconcile_check"
    /\ Len(hist.probe) = 2
    /\ hist.probe[2] = "false"
    /\ hist.probe[1] \in sandboxes \cap DOMAIN state_db
    /\ dereg # {}

\* C28: within a tick Phase 1 is over before Phase 2 begins; an error inside
\* Phase 1 ends Phase 1 at once, the sandboxes not yet examined are not touched
\* and the stale sweep is not made, and Phase 2 of the same tick still runs.
C28_PhaseOrder ==
    [][/\ (pc \in {"loop", "check"} /\ hist'.p1 = "err") =>
              /\ pc' = "dispatch"
              /\ todo' = {}
              /\ now' = now
       /\ (pc = "check" /\ todo # {} /\ hist'.p1 = "err") =>
              /\ \A n \in DOMAIN state_db \ sandboxes : n \in DOMAIN state_db'
              /\ Cardinality(sandboxes \ sandboxes') <= 1
              /\ Cardinality(dereg' \ dereg) <= 1
              /\ \A n \in sandboxes \ todo : n \in sandboxes'
       /\ pc = "check" =>
              /\ pc' \in {"check", "dispatch"}
              /\ sandboxes' \subseteq sandboxes
              /\ trail' = <<>>
       /\ (pc = "dispatch" /\ pc' # "dispatch") =>
              /\ pc' \in {"jobs", "sleep"}
              /\ hist'.p2 # "-"
              /\ hist'.p1 = hist.p1
              /\ now' = now
       /\ pc \in {"dispatch", "jobs"} =>
              /\ pc' \in {"dispatch", "jobs", "sleep"}
              /\ sandboxes \subseteq sandboxes'
              /\ DOMAIN state_db \subseteq DOMAIN state_db'
              /\ dereg' \subseteq dereg]_vars

\* Phase 1 was aborted with a complete sandbox left, and Phase 2 launched
C28_Witness ==
    /\ pc = "sleep"
    /\ hist.p1 = "err"
    /\ sandboxes \cap completed # {}
    /\ hist.p2 = "ok"
    /\ Launched # {}

\* the sandboxes launched in this tick whose put failed
Unrecorded == {NameOf[all_jobs[i].id] : i \in {k \in 1..Len(trail) : trail[k] = "put_failed"}}

C24_StateIndexLaws ==
    [][/\ (st_op.op = "put" /\ st_ret.ok /\ st_op'.op = "get" /\ st_op'.io = "ok"
           /\ st_op'.name = st_op.name) =>
              /\ st_ret'.ok
              /\ st_ret'.found.some
              /\ st_ret'.found.v = st_op.a
       /\ (st_op.op = "remove" /\ st_ret.ok /\ st_op'.op = "get" /\ st_op'.io = "ok"
           /\ st_op'.name = st_op.name) =>
              /\ st_ret'.ok
              /\ ~st_ret'.found.some
       /\ (st_op'.op = "remove" /\ st_op'.io = "ok") =>
              /\ st_ret'.ok
              /\ st_op'.name \notin DOMAIN state_db => state_db' = state_db
              /\ DOMAIN state_db' = DOMAIN state_db \ {st_op'.name}
              /\ \A n \in DOMAIN state_db' : state_db'[n] = state_db[n]
       /\ (st_op.op = "clear" /\ st_ret.ok /\ st_op'.op = "list" /\ st_op'.io = "ok") =>
              /\ st_ret'.ok
              /\ st_ret'.listing = <<>>]_vars

\* a get returns the assignment of job 12 while another name has an entry too
C24_Witness ==
    /\ st_op.op = "get"
    /\ st_ret.ok
    /\ st_ret.found = Some([slot |-> 12, started_at |-> 1])
    /\ Cardinality(DOMAIN state_db) = 2

\* C25: an entry of the State Index is never overwritten: a put is made only
\* at a launch and only for a name without an entry, every entry keeps its job id
\* and its started_at for as long as it exists, and the index changes only by
\* the insertion of one absent name at a launch, by remove and by clear.
C25_EntriesImmutable ==
    [][/\ \A n \in DOMAIN state_db \cap DOMAIN state_db' : state_db'[n] = state_db[n]
       /\ (LaunchStep /\ trail'[Len(trail')] = "launched") =>
              /\ NameOf[all_jobs[job_i].id] \notin DOMAIN state_db
              /\ DOMAIN state_db' = DOMAIN state_db \cup {NameOf[all_jobs[job_i].id]}
       /\ ~(DOMAIN state_db' \subseteq DOMAIN state_db) =>
              /\ LaunchStep
              /\ trail'[Len(trail')] = "launched"
       /\ ~(DOMAIN state_db \subseteq DOMAIN state_db') =>
              /\ pc \in {"reconcile_check", "check", "drain"}
              /\ DOMAIN state_db' \subseteq DOMAIN state_db]_vars

\* an entry of an earlier tick stands unchanged next to one inserted in this tick
C25_Witness ==
    /\ pc = "sleep"
    /\ \E i \in Launched : state_db[NameOf[all_jobs[i].id]].started_at = now
    /\ \E n \in DOMAIN state_db : state_db[n].started_at < now /\ state_db[n].slot = 12

\* C30: when startup reconcile fails, run returns the error without a tick:
\* the next thing executed is shutdown(), no phase of a tick is ever entered and
\* nothing is launched; the drain enumerates the live sandboxes and calls the
\* full cleanup for each of them, whether its runner is complete or still
\* active; and the process ends with an error.
C30_FailedReconcileDrains ==
    [][/\ (run_result = "none" /\ run_result' = "err") =>
              /\ pc \in {"reconcile", "reconcile_check"}
              /\ pc' = "shutdown"
              /\ hist'.fresh
       /\ run_result = "err" =>
              /\ pc \in {"shutdown", "drain", "done", "aborted"}
              /\ pc' \in {"shutdown", "drain", "done", "aborted"}
              /\ run_result' = "err"
              /\ hist'.fresh
              /\ now' = 0
              /\ trail' = <<>>
              /\ sandboxes' \subseteq sandboxes
       /\ (run_result = "err" /\ pc = "shutdown" /\ pc' = "drain") =>
              /\ todo' = sandboxes
              /\ hist'.drain0 = sandboxes
       /\ (run_result = "err" /\ pc = "drain" /\ todo' # todo) =>
              \E n \in todo :
                  /\ todo' = todo \ {n}
                  /\ n \in dereg'
                  /\ n \notin sandboxes' \/ (sandboxes' = sandboxes /\ state_db' = state_db)
       /\ (run_result = "err" /\ pc = "drain" /\ pc' # "drain") =>
              /\ todo = {}
              /\ hist.drain0 \subseteq dereg
       /\ (run_result = "err" /\ pc \notin {"done", "aborted"}
           /\ pc' \in {"done", "aborted"}) =>
              exit_result' = "err"]_vars

\* reconcile failed, and the drain destroyed a sandbox whose runner was active
C30_Witness ==
    /\ pc = "done"
    /\ run_result = "err"
    /\ exit_result = "err"
    /\ \E n \in hist.active0 : n \notin sandboxes /\ n \in dereg

====
